---- MODULE Spec2Model ----
(***************************************************************************)
(* Model of the hurst_hockey ETL scripts:                                  *)
(*   - the CSV -> record coercion of db_loader.py (SpecCoerce),            *)
(*   - the store and its transactions: load_bios, load_stats, init.py      *)
(*     (Spec),                                                             *)
(*   - the two scraper drivers (SpecScrape),                               *)
(*   - link discovery of the two scrapers (SpecLinks).                     *)
(* Text is a sequence of one-character strings, so that strip, int() and   *)
(* float() are computed on the characters.                                 *)
(***************************************************************************)
EXTENDS Integers, Sequences, FiniteSets, TLC

VARIABLES
    \* ---- coercion pass (db_loader.make_bio_instances / make_stats_instances)
    pass,        \* "bio" | "stats" | "off"
    header,      \* csv.DictReader.fieldnames
    row,         \* the cells of the data row read last
    rec,         \* the record built from it (NoRec before the first row)
    rowsRead,    \* data rows yielded by the reader so far
    nRecords,    \* records appended so far
    cstatus,     \* "reading" | "returned" | "raised" | "off"
    \* ---- store (SQLite file behind the engine) and the running script
    bioTable, statsTable,   \* the rows of table bio / stats
    pc,          \* position of the running script
    op,          \* "none" | "load_bios" | "load_stats" | "init"
    batch,       \* the records handed to session.add_all
    pending,     \* records of the batch not yet flushed
    snapBio, snapStats,     \* the tables when the open transaction began
    preBio, preStats,       \* the tables when the call began
    initBios,    \* init.py: whether the bio batch of this run is committed, and its rows
    outcome,     \* "none" | "ok" | "failed"
    \* ---- scraper driver (main of the two scrapers)
    driver,      \* "playwright" | "requests" | "off"
    roster,      \* "ok" | "unreachable" | "no_marker" | "unknown"
    links,       \* result of gather_profile_links
    blocks,      \* inline .sidearm-roster-player blocks of the roster page
    idx,         \* loop position
    rows,        \* rows collected
    failed,      \* links whose visit raised
    csvFile,     \* bio.csv: NoFile or its rows
    csvBefore,   \* bio.csv before the run
    spc,         \* position in main
    \* ---- link discovery (gather_profile_links of the two scrapers)
    ldriver,     \* "playwright" | "requests" | "off"
    anchors,     \* href attributes of the anchors of the page, document order
    hrefs,       \* the list being built
    ai,          \* anchors handled
    lpc          \* "loop" | "returned" | "off"

coerceVars == <<pass, header, row, rec, rowsRead, nRecords, cstatus>>
storeVars  == <<bioTable, statsTable, pc, op, batch, pending, snapBio, snapStats,
                preBio, preStats, initBios, outcome>>
scrapeVars == <<driver, roster, links, blocks, idx, rows, failed, csvFile,
                csvBefore, spc>>
linkVars   == <<ldriver, anchors, hrefs, ai, lpc>>
vars == <<coerceVars, storeVars, scrapeVars, linkVars>>

\* ------------------------------------------------------------------ bounds
MaxCols == 2
MaxRows == 2
MaxBatch == 2
MaxLinks == 3
MaxBlocks == 1
MaxAnchors == 3

\* ------------------------------------------------------------- Python values
PyNone == [t |-> "none"]
PyInt(n) == [t |-> "int", i |-> n]
PyStr(s) == [t |-> "str", s |-> s]
\* a float m / 10^e with no trailing zero in the fraction
PyFloat(m, e) == [t |-> "float", m |-> m, e |-> e]
\* the list csv.DictReader stores under restkey
PyList(l) == [t |-> "list", l |-> l]

Whitespace == {" "}
Digits == {"0", "1", "5", "7"}

DigitValue(c) == CASE c = "0" -> 0 [] c = "1" -> 1 [] c = "5" -> 5 [] c = "7" -> 7

RECURSIVE LStrip(_)
LStrip(s) == IF s # <<>> /\ Head(s) \in Whitespace THEN LStrip(Tail(s)) ELSE s

RECURSIVE RStrip(_)
RStrip(s) ==
    IF s # <<>> /\ s[Len(s)] \in Whitespace THEN RStrip(SubSeq(s, 1, Len(s) - 1)) ELSE s

\* str.strip()
Strip(s) == LStrip(RStrip(s))

RECURSIVE DigitsValue(_)
DigitsValue(s) ==
    IF s = <<>> THEN 0 ELSE 10 * DigitsValue(SubSeq(s, 1, Len(s) - 1)) + DigitValue(s[Len(s)])

AllDigits(s) == \A k \in 1..Len(s) : s[k] \in Digits

Unsigned(s) == IF s # <<>> /\ Head(s) \in {"+", "-"} THEN Tail(s) ELSE s

Sign(s) == IF s # <<>> /\ Head(s) = "-" THEN -1 ELSE 1

\* int(str) accepts: whitespace, an optional sign, one or more digits, whitespace
IntParses(s) == LET u == Unsigned(Strip(s)) IN u # <<>> /\ AllDigits(u)

IntOf(s) == Sign(Strip(s)) * DigitsValue(Unsigned(Strip(s)))

DotAt(u) == IF \E k \in 1..Len(u) : u[k] = "." THEN CHOOSE k \in 1..Len(u) : u[k] = "." /\ \A j \in 1..(k - 1) : u[j] # "." ELSE 0

IntPart(u) == IF DotAt(u) = 0 THEN u ELSE SubSeq(u, 1, DotAt(u) - 1)

RECURSIVE DropTrailingZeros(_)
DropTrailingZeros(s) ==
    IF s # <<>> /\ s[Len(s)] = "0" THEN DropTrailingZeros(SubSeq(s, 1, Len(s) - 1)) ELSE s

FracPart(u) == IF DotAt(u) = 0 THEN <<>> ELSE DropTrailingZeros(SubSeq(u, DotAt(u) + 1, Len(u)))

\* float(str) accepts: whitespace, an optional sign, digits with at most one
\* point and at least one digit, whitespace
FloatParses(s) ==
    LET u == Unsigned(Strip(s)) IN
      /\ AllDigits(IntPart(u))
      /\ DotAt(u) # 0 => AllDigits(SubSeq(u, DotAt(u) + 1, Len(u)))
      /\ Len(u) > (IF DotAt(u) = 0 THEN 0 ELSE 1)

FloatOf(s) ==
    LET u == Unsigned(Strip(s)) IN
      PyFloat(Sign(Strip(s)) * DigitsValue(IntPart(u) \o FracPart(u)), Len(FracPart(u)))

\* ---------------------------------------------------------------- db_loader
\* The mutants of _coerce_int: a failed parse becomes zero.
CoerceIntZero(value) ==
    IF value.t = "str" /\ IntParses(value.s) THEN PyInt(IntOf(value.s)) ELSE PyInt(0)

\* int(value) raises TypeError on None and on a list, ValueError on text that
\* is no integer; every Exception is caught.
_coerce_int(value) ==
    IF value.t = "str" /\ IntParses(value.s) THEN PyInt(IntOf(value.s)) ELSE PyNone

_coerce_float(value) ==
    IF value.t = "str" /\ FloatParses(value.s) THEN FloatOf(value.s) ELSE PyNone

\* (val or "").strip(): None and "" are falsy; a non-empty list is truthy and
\* has no strip, which raises AttributeError.
StripRaises(val) == val.t = "list" /\ val.l # <<>>

OrEmptyStrip(val) == IF val.t = "str" THEN PyStr(Strip(val.s)) ELSE PyStr(<<>>)

\* csv.DictReader: the row as a dict. Cells beyond the header go, as a list,
\* under the key None (restkey); header columns beyond the cells get None
\* (restval).
RestKey == "<None>"

DictKeys(hd, cells) ==
    IF Len(cells) > Len(hd) THEN Append(hd, RestKey) ELSE hd

DictGetItem(hd, cells, key) ==
    IF key = RestKey THEN PyList(SubSeq(cells, Len(hd) + 1, Len(cells)))
    ELSE LET k == CHOOSE j \in 1..Len(hd) : hd[j] = key IN
           IF k <= Len(cells) THEN PyStr(cells[k]) ELSE PyNone

HasKey(hd, cells, key) == \E j \in 1..Len(DictKeys(hd, cells)) : DictKeys(hd, cells)[j] = key

\* row.get(key, default)
DictGet(hd, cells, key, default) ==
    IF HasKey(hd, cells, key) THEN DictGetItem(hd, cells, key) ELSE default

BioStrFields == {"Player", "FirstName", "LastName", "Position", "Height", "Weight",
                 "Class", "Hometown", "HighSchool"}
BioFields == {"Number"} \cup BioStrFields

\* the body of the loop of make_bio_instances / load_bios: Bio(...)
BioOfRow(hd, cells) ==
    [f \in BioFields |->
        IF f = "Number" THEN _coerce_int(DictGet(hd, cells, "Number", PyStr(<<>>)))
        ELSE OrEmptyStrip(DictGet(hd, cells, f, PyNone))]

int_fields == {"GP", "G", "A", "PTS", "SH", "plus_minus", "PPG", "SHG", "FG", "GWG",
               "GTG", "OTG", "HTG", "UAG", "MIN", "MAJ", "OTH", "BLK", "Number"}

StatsFields == int_fields \cup {"FirstName", "LastName", "SH_PCT", "PN_PIM"}

\* kw[key] = value
DictSet(kw, key, value) ==
    [k \in (DOMAIN kw) \cup {key} |-> IF k = key THEN value ELSE kw[k]]

\* The mutant of StatsItem: PN-PIM is handled like any other column.
StatsItemNoRename(kw, key, val) ==
    IF key \in {"Number", "FirstName", "LastName"} THEN kw
    ELSE IF key \in int_fields THEN DictSet(kw, key, _coerce_int(val))
    ELSE IF key = "SH_PCT" THEN DictSet(kw, key, _coerce_float(val))
    ELSE DictSet(kw, key, OrEmptyStrip(val))

\* one iteration of `for key, val in row.items()` of make_stats_instances
StatsItem(kw, key, val) ==
    IF key \in {"Number", "FirstName", "LastName"} THEN kw
    ELSE IF key = "PN-PIM" THEN DictSet(kw, "PN_PIM", OrEmptyStrip(val))
    ELSE IF key \in int_fields THEN DictSet(kw, key, _coerce_int(val))
    ELSE IF key = "SH_PCT" THEN DictSet(kw, key, _coerce_float(val))
    ELSE DictSet(kw, key, OrEmptyStrip(val))

\* whether that iteration raises: only the two strip branches can
StatsItemRaises(key, val) ==
    /\ key \notin {"Number", "FirstName", "LastName"}
    /\ \/ key = "PN-PIM"
       \/ key \notin int_fields /\ key # "SH_PCT"
    /\ StripRaises(val)

\* kw before the loop
StatsKw0(hd, cells) ==
    [k \in {"Number", "FirstName", "LastName"} |->
        IF k = "Number" THEN _coerce_int(DictGet(hd, cells, "Number", PyStr(<<>>)))
        ELSE OrEmptyStrip(DictGet(hd, cells, k, PyNone))]

RECURSIVE StatsKw(_, _, _)
StatsKw(hd, cells, n) ==
    IF n = 0 THEN StatsKw0(hd, cells)
    ELSE StatsItem(StatsKw(hd, cells, n - 1), DictKeys(hd, cells)[n],
                   DictGetItem(hd, cells, DictKeys(hd, cells)[n]))

StatsRowRaises(hd, cells) ==
    \E n \in 1..Len(DictKeys(hd, cells)) :
        StatsItemRaises(DictKeys(hd, cells)[n], DictGetItem(hd, cells, DictKeys(hd, cells)[n]))

\* Stats(**kw): a table model takes the keywords that name a field, leaves the
\* other fields at their default None and ignores the rest.
StatsOfKw(kw) == [f \in StatsFields |-> IF f \in DOMAIN kw THEN kw[f] ELSE PyNone]

StatsOfRow(hd, cells) == StatsOfKw(StatsKw(hd, cells, Len(DictKeys(hd, cells))))

\* ------------------------------------------------------ coercion pass: inputs
Columns == {"Number", "FirstName", "GP", "SH_PCT", "PN-PIM", "PN_PIM", "Nickname"}

\* The code reads every column by its name, so the order of the columns
\* matters only where two columns write the same keyword (PN-PIM and PN_PIM):
\* headers are enumerated in these two orders.
ColumnOrders == {<<"FirstName", "Number", "GP", "SH_PCT", "PN-PIM", "PN_PIM", "Nickname">>,
                 <<"FirstName", "Number", "GP", "SH_PCT", "PN_PIM", "PN-PIM", "Nickname">>}

\* empty, an integer in blanks, text in blanks, a decimal number
CellValues == {<<>>, <<" ", "7", " ">>, <<" ", "x", " ">>, <<"1", ".", "5", "0">>}

\* the one surplus cell of a row longer than the header
SurplusCell == <<"x">>

SeqsUpTo(S, n) == UNION {[1..k -> S] : k \in 0..n}

NoDup(s) == \A i, j \in 1..Len(s) : s[i] = s[j] => i = j

IndexIn(s, x) == CHOOSE k \in 1..Len(s) : s[k] = x

IsSubSeqOf(h, ord) ==
    /\ NoDup(h)
    /\ \A i, j \in 1..Len(h) : i < j => IndexIn(ord, h[i]) < IndexIn(ord, h[j])

Headers ==
    {h \in SeqsUpTo(Columns, MaxCols) : h # <<>> /\ \E ord \in ColumnOrders : IsSubSeqOf(h, ord)}

NoRec == [none |-> TRUE]

CoerceOff ==
    /\ pass = "off" /\ header = <<>> /\ row = <<>> /\ rec = NoRec
    /\ rowsRead = 0 /\ nRecords = 0 /\ cstatus = "off"

\* the data rows a file with this header can hold: one cell at least (the
\* reader skips blank lines), up to one cell more than the header has columns
RowsFor(hd) ==
    UNION {[1..k -> CellValues] : k \in 1..Len(hd)}
      \cup {Append(r, SurplusCell) : r \in [1..Len(hd) -> CellValues]}

\* ----------------------------------------------------- coercion pass: actions
\* make_bio_instances: one iteration of `for row in reader`
CoerceBioRow ==
    /\ pass = "bio" /\ cstatus = "reading" /\ rowsRead < MaxRows
    /\ \E cells \in RowsFor(header) :
          /\ row' = cells
          /\ rec' = BioOfRow(header, cells)
    /\ rowsRead' = rowsRead + 1
    /\ nRecords' = nRecords + 1
    /\ UNCHANGED <<pass, header, cstatus, storeVars, scrapeVars, linkVars>>

\* make_stats_instances: one iteration of `for row in reader`
CoerceStatsRow ==
    /\ pass = "stats" /\ cstatus = "reading" /\ rowsRead < MaxRows
    /\ \E cells \in RowsFor(header) :
          /\ row' = cells
          /\ IF StatsRowRaises(header, cells)
             THEN /\ rec' = NoRec
                  /\ nRecords' = nRecords
                  /\ cstatus' = "raised"
             ELSE /\ rec' = StatsOfRow(header, cells)
                  /\ nRecords' = nRecords + 1
                  /\ cstatus' = cstatus
    /\ rowsRead' = rowsRead + 1
    /\ UNCHANGED <<pass, header, storeVars, scrapeVars, linkVars>>

\* end of file: `return bios` / `return rows`
CoerceReturn ==
    /\ cstatus = "reading"
    /\ cstatus' = "returned"
    /\ UNCHANGED <<pass, header, row, rec, rowsRead, nRecords, storeVars, scrapeVars, linkVars>>

\* ------------------------------------------------------- idle values of parts
NotCommitted == [committed |-> FALSE, rows |-> {}]

NoFile == [exists |-> FALSE, rows |-> <<>>]

StoreOff ==
    /\ bioTable = {} /\ statsTable = {} /\ pc = "off" /\ op = "none"
    /\ batch = <<>> /\ pending = <<>> /\ snapBio = {} /\ snapStats = {}
    /\ preBio = {} /\ preStats = {} /\ initBios = NotCommitted /\ outcome = "none"

ScrapeOff ==
    /\ driver = "off" /\ roster = "unknown" /\ links = <<>> /\ blocks = <<>>
    /\ idx = 0 /\ rows = <<>> /\ failed = {} /\ csvFile = NoFile
    /\ csvBefore = NoFile /\ spc = "off"

LinksOff ==
    /\ ldriver = "off" /\ anchors = <<>> /\ hrefs = <<>> /\ ai = 0 /\ lpc = "off"

\* ------------------------------------------------ coercion pass: specification
InitCoerce ==
    /\ pass \in {"bio", "stats"}
    /\ header \in Headers
    /\ row = <<>> /\ rec = NoRec /\ rowsRead = 0 /\ nRecords = 0
    /\ cstatus = "reading"
    /\ StoreOff /\ ScrapeOff /\ LinksOff

NextCoerce == CoerceBioRow \/ CoerceStatsRow \/ CoerceReturn

SpecCoerce == InitCoerce /\ [][NextCoerce]_vars

\* -------------------------------------------------- coercion pass: properties
\* position of a column in the header, 0 when the header lacks it
ColumnAt(col) ==
    IF \E j \in 1..Len(header) : header[j] = col
    THEN CHOOSE j \in 1..Len(header) : header[j] = col ELSE 0

\* the row has a cell in that column
CellPresent(col) == ColumnAt(col) # 0 /\ ColumnAt(col) <= Len(row)

CellText(col) == row[ColumnAt(col)]

SchemaIntFields == IF pass = "bio" THEN {"Number"} ELSE int_fields

SchemaStrFields == IF pass = "bio" THEN BioStrFields ELSE {"FirstName", "LastName", "PN_PIM"}

\* the CSV column a field is read from
SourceColumn(f) == IF pass = "stats" /\ f = "PN_PIM" THEN "PN-PIM" ELSE f

\* C5: every integer field of the schema is the integer its cell parses as, and
\* None when the cell is empty, missing or no integer (never zero); SH_PCT
\* likewise with a float; and no numeric cell makes the pass raise: a raise
\* can only come from cells beyond the header.
C5_NumericParseOrNone ==
    /\ rec # NoRec =>
          /\ \A f \in SchemaIntFields :
                rec[f] = IF CellPresent(f) /\ IntParses(CellText(f))
                         THEN PyInt(IntOf(CellText(f))) ELSE PyNone
          /\ pass = "stats" =>
                rec["SH_PCT"] = IF CellPresent("SH_PCT") /\ FloatParses(CellText("SH_PCT"))
                                THEN FloatOf(CellText("SH_PCT")) ELSE PyNone
    /\ cstatus = "raised" => Len(row) > Len(header)

C5_Witness ==
    /\ pass = "stats" /\ rec # NoRec /\ rowsRead = 2
    /\ header = <<"Number", "GP">>
    /\ row = <<<<" ", "7", " ">>, <<" ", "x", " ">>>>
    /\ rec["GP"] = PyNone /\ rec["Number"] = PyInt(7)

\* C6 (as claimed): every string field is the stripped cell, the empty string
\* when the cell or the column is missing (PN_PIM included), and a numeric field
\* with a missing cell is None.
C6_StringsStrippedOrEmpty ==
    rec # NoRec =>
        /\ \A f \in SchemaStrFields :
              rec[f] = IF CellPresent(SourceColumn(f))
                       THEN PyStr(Strip(CellText(SourceColumn(f)))) ELSE PyStr(<<>>)
        /\ \A f \in SchemaIntFields : ~CellPresent(f) => rec[f] = PyNone

\* the column whose cell ends up in PN_PIM: of PN-PIM and PN_PIM, the one
\* that comes later in the header
PnPimWinner ==
    IF ColumnAt("PN_PIM") > ColumnAt("PN-PIM") THEN "PN_PIM" ELSE "PN-PIM"

\* C7 (as claimed): a PN-PIM column is always stored under PN_PIM as the
\* stripped text of its cell, and the record has no field PN-PIM.
C7_PnPimAlwaysStored ==
    (pass = "stats" /\ rec # NoRec /\ ColumnAt("PN-PIM") # 0) =>
        /\ rec["PN_PIM"] = IF CellPresent("PN-PIM")
                           THEN PyStr(Strip(CellText("PN-PIM"))) ELSE PyStr(<<>>)
        /\ "PN-PIM" \notin DOMAIN rec

\* C7 (amended): a PN-PIM column is stored under PN_PIM as the stripped text
\* of its cell, never parsed as a number, unless a column named PN_PIM follows
\* it in the header, whose stripped cell then replaces it; the record has no
\* field PN-PIM.
C7_PnPimStoredUnlessOverwritten ==
    (pass = "stats" /\ rec # NoRec /\ ColumnAt("PN-PIM") # 0) =>
        /\ rec["PN_PIM"] = IF CellPresent(PnPimWinner)
                           THEN PyStr(Strip(CellText(PnPimWinner))) ELSE PyStr(<<>>)
        /\ "PN-PIM" \notin DOMAIN rec

C7_Witness ==
    /\ pass = "stats" /\ rec # NoRec
    /\ header = <<"PN-PIM">> /\ row = <<<<" ", "7", " ">>>>
    /\ rec["PN_PIM"] = PyStr(<<"7">>)

\* C8 (as claimed): the pass never aborts and has appended one record for
\* every data row read.
C8_OneRecordPerRow == cstatus # "raised" /\ nRecords = rowsRead

\* ---------------------------------------------------------------- the store
\* The rows the CSV files can hold, as the coercion pass returns them; of a
\* record the key and the jersey number are kept.
Players == {<<"Ann", "Lee">>, <<"Ann", "Wu">>}

Numbers == {1, 2}

Records == {[FirstName |-> p[1], LastName |-> p[2], Number |-> n] : p \in Players, n \in Numbers}

Batches == SeqsUpTo(Records, MaxBatch)

Range(s) == {s[k] : k \in 1..Len(s)}

\* The mutant of PrimaryKeyCollision: the tables have no primary key.
NoPrimaryKey(table, r) == FALSE

\* FirstName and LastName are the primary key of bio and of stats: an INSERT
\* of a row whose pair is in the table fails with IntegrityError. (The foreign
\* key of stats is declared but SQLite does not enforce it on this
\* connection.)
PrimaryKeyCollision(table, r) ==
    \E x \in table : x.FirstName = r.FirstName /\ x.LastName = r.LastName

\* The mutant of Rollback: the rows flushed before the failure stay.
RollbackKeepsFlushed(snapshot, current) == current

\* the table after ROLLBACK of the open transaction
Rollback(snapshot, current) == snapshot

\* The mutant of CommitBegin: init.py commits once, at the end, so the stats
\* batch runs in the transaction of the bio batch.
CommitBeginNoCommit(snapshot, current) == snapshot

\* the snapshot a later ROLLBACK returns to, once session.commit() has ended
\* the transaction: the table as committed
CommitBegin(snapshot, current) == current

StartCall(name, next) ==
    /\ pc = "idle"
    /\ op' = name
    /\ pc' = next
    /\ preBio' = bioTable /\ preStats' = statsTable
    /\ snapBio' = bioTable /\ snapStats' = statsTable
    /\ initBios' = NotCommitted
    /\ outcome' = "none"
    /\ UNCHANGED <<bioTable, statsTable, coerceVars, scrapeVars, linkVars>>

\* load_bios up to session.add_all(bios)
LoadBiosBegin ==
    /\ \E b \in Batches : batch' = b /\ pending' = b
    /\ StartCall("load_bios", "flush_bio")

\* load_stats up to session.add_all(rows)
LoadStatsBegin ==
    /\ \E b \in Batches : batch' = b /\ pending' = b
    /\ StartCall("load_stats", "flush_stats")

\* init.py up to session.add_all(bios)
InitBegin ==
    /\ \E b \in Batches : batch' = b /\ pending' = b
    /\ StartCall("init", "flush_bio")

\* session.commit(), the flush: INSERT of the next pending Bio
FlushBio ==
    /\ pc = "flush_bio" /\ pending # <<>>
    /\ ~PrimaryKeyCollision(bioTable, Head(pending))
    /\ bioTable' = bioTable \cup {Head(pending)}
    /\ pending' = Tail(pending)
    /\ UNCHANGED <<statsTable, pc, op, batch, snapBio, snapStats, preBio, preStats,
                   initBios, outcome, coerceVars, scrapeVars, linkVars>>

\* session.commit(), the flush: INSERT of the next pending Stats
FlushStats ==
    /\ pc = "flush_stats" /\ pending # <<>>
    /\ ~PrimaryKeyCollision(statsTable, Head(pending))
    /\ statsTable' = statsTable \cup {Head(pending)}
    /\ pending' = Tail(pending)
    /\ UNCHANGED <<bioTable, pc, op, batch, snapBio, snapStats, preBio, preStats,
                   initBios, outcome, coerceVars, scrapeVars, linkVars>>

\* the INSERT fails: the session rolls the transaction back and the
\* IntegrityError ends the script
FlushFails ==
    /\ \/ pc = "flush_bio" /\ pending # <<>> /\ PrimaryKeyCollision(bioTable, Head(pending))
       \/ pc = "flush_stats" /\ pending # <<>> /\ PrimaryKeyCollision(statsTable, Head(pending))
    /\ bioTable' = Rollback(snapBio, bioTable)
    /\ statsTable' = Rollback(snapStats, statsTable)
    /\ pending' = <<>>
    /\ pc' = "done"
    /\ outcome' = "failed"
    /\ UNCHANGED <<op, batch, snapBio, snapStats, preBio, preStats, initBios,
                   coerceVars, scrapeVars, linkVars>>

\* session.commit(), the COMMIT, of load_bios, of load_stats and the second
\* one of init.py
CommitLast ==
    /\ pending = <<>>
    /\ \/ pc = "flush_bio" /\ op = "load_bios"
       \/ pc = "flush_stats"
    /\ pc' = "done"
    /\ outcome' = "ok"
    /\ snapBio' = CommitBegin(snapBio, bioTable)
    /\ snapStats' = CommitBegin(snapStats, statsTable)
    /\ UNCHANGED <<bioTable, statsTable, op, batch, pending, preBio, preStats, initBios,
                   coerceVars, scrapeVars, linkVars>>

\* init.py: the first session.commit(), the COMMIT of the bio batch
InitCommitBios ==
    /\ pc = "flush_bio" /\ op = "init" /\ pending = <<>>
    /\ snapBio' = CommitBegin(snapBio, bioTable)
    /\ snapStats' = CommitBegin(snapStats, statsTable)
    /\ initBios' = [committed |-> TRUE, rows |-> Range(batch)]
    /\ pc' = "read_stats"
    /\ UNCHANGED <<bioTable, statsTable, op, batch, pending, preBio, preStats, outcome,
                   coerceVars, scrapeVars, linkVars>>

\* init.py: make_stats_instances("stats.csv") and session.add_all(stats)
InitReadStats ==
    /\ pc = "read_stats"
    /\ \E b \in Batches : batch' = b /\ pending' = b
    /\ pc' = "flush_stats"
    /\ UNCHANGED <<bioTable, statsTable, op, snapBio, snapStats, preBio, preStats,
                   initBios, outcome, coerceVars, scrapeVars, linkVars>>

\* init.py: make_stats_instances raises (stats.csv missing, or a row it
\* cannot coerce); the session is closed and the script ends
InitReadStatsFails ==
    /\ pc = "read_stats"
    /\ bioTable' = Rollback(snapBio, bioTable)
    /\ statsTable' = Rollback(snapStats, statsTable)
    /\ batch' = <<>> /\ pending' = <<>>
    /\ pc' = "done"
    /\ outcome' = "failed"
    /\ UNCHANGED <<op, snapBio, snapStats, preBio, preStats, initBios,
                   coerceVars, scrapeVars, linkVars>>

\* the script has ended; the next one can run on the same store
ScriptExit ==
    /\ pc = "done"
    /\ pc' = "idle"
    /\ op' = "none"
    /\ batch' = <<>> /\ pending' = <<>>
    /\ snapBio' = {} /\ snapStats' = {} /\ preBio' = {} /\ preStats' = {}
    /\ initBios' = NotCommitted
    /\ outcome' = "none"
    /\ UNCHANGED <<bioTable, statsTable, coerceVars, scrapeVars, linkVars>>

Init ==
    /\ bioTable = {} /\ statsTable = {}
    /\ pc = "idle" /\ op = "none"
    /\ batch = <<>> /\ pending = <<>>
    /\ snapBio = {} /\ snapStats = {} /\ preBio = {} /\ preStats = {}
    /\ initBios = NotCommitted
    /\ outcome = "none"
    /\ CoerceOff /\ ScrapeOff /\ LinksOff

Next ==
    \/ LoadBiosBegin \/ LoadStatsBegin \/ InitBegin
    \/ FlushBio \/ FlushStats \/ FlushFails
    \/ CommitLast \/ InitCommitBios \/ InitReadStats \/ InitReadStatsFails
    \/ ScriptExit

Spec == Init /\ [][Next]_vars

\* -------------------------------------------------------- store: properties
SameKey(x, y) == x.FirstName = y.FirstName /\ x.LastName = y.LastName

\* the table the batch of the running call goes to
TargetTable == IF pc = "done" /\ op = "load_bios" THEN bioTable ELSE statsTable

\* C2: when load_bios or load_stats has ended, either the commit failed and
\* both tables are as they were before the call, or it succeeded and the table
\* holds every record of the batch besides the rows it held before.
C2_BatchAllOrNothing ==
    (pc = "done" /\ op \in {"load_bios", "load_stats"}) =>
        /\ outcome \in {"ok", "failed"}
        /\ outcome = "failed" => bioTable = preBio /\ statsTable = preStats
        /\ outcome = "ok" =>
              /\ TargetTable = (IF op = "load_bios" THEN preBio ELSE preStats) \cup Range(batch)
              /\ op = "load_bios" => statsTable = preStats
              /\ op = "load_stats" => bioTable = preBio

\* a failed load_bios whose first record was new and whose second collided
C2_Witness ==
    /\ pc = "done" /\ op = "load_bios" /\ outcome = "failed"
    /\ Len(batch) = 2
    /\ ~PrimaryKeyCollision(preBio, batch[1])
    /\ preBio # {} /\ bioTable = preBio

\* C4: in every state, also inside a transaction and after a failed run, no
\* two rows of bio share (FirstName, LastName), and no two rows of stats do.
C4_KeyUnique ==
    /\ \A x, y \in bioTable : SameKey(x, y) => x = y
    /\ \A x, y \in statsTable : SameKey(x, y) => x = y

\* after a run that failed on a collision, with both tables filled
C4_Witness ==
    /\ pc = "done" /\ outcome = "failed" /\ batch # <<>>
    /\ Cardinality(bioTable) >= 2 /\ Cardinality(statsTable) >= 2

\* C10: in a run of init.py the stats table changes only once the bio batch
\* of the run is committed, and when the stats step fails the committed bio
\* rows are in the store.
C10_InitTwoTransactions ==
    op = "init" =>
        /\ statsTable # preStats => initBios.committed
        /\ pc \in {"read_stats", "flush_stats"} => initBios.committed
        /\ initBios.committed => initBios.rows \subseteq bioTable
        /\ (pc = "done" /\ outcome = "failed" /\ initBios.committed) =>
              /\ bioTable = preBio \cup initBios.rows
              /\ statsTable = preStats

\* a run of init.py that failed in the stats step and left new bio rows
C10_Witness ==
    /\ op = "init" /\ pc = "done" /\ outcome = "failed"
    /\ initBios.committed /\ initBios.rows # {}
    /\ bioTable # preBio /\ statsTable = preStats
    /\ batch # <<>>

\* ------------------------------------------------------------ link discovery
\* An href is a sequence of pieces of text; its string is their concatenation.
\* No piece other than RosterPath holds a part of "/sports/mens-ice-hockey/
\* roster", so a substring test on the string is a test on the pieces.
Origin == "https://hurstathletics.com"

RosterPath == "/sports/mens-ice-hockey/roster"

ROSTER_URL == <<Origin, RosterPath>>

\* the pieces that begin with "/"
SlashFirst(piece) == piece \in {RosterPath, "/"}

\* href.startswith("/")
StartsWithSlash(href) == href # <<>> /\ SlashFirst(href[1])

\* "/sports/mens-ice-hockey/roster/" in href, and the selector
\* a[href*="/sports/mens-ice-hockey/roster/"]
ContainsRosterSlash(href) ==
    \E k \in 1..(Len(href) - 1) : href[k] = RosterPath /\ SlashFirst(href[k + 1])

\* The mutant of GatherRequests: the test `href not in hrefs` is dropped.
GatherRequestsNoDedup(acc, href) ==
    IF ContainsRosterSlash(href) /\ href \notin {<<RosterPath>>, ROSTER_URL}
    THEN Append(acc, IF StartsWithSlash(href) THEN <<Origin>> \o href ELSE href)
    ELSE acc

\* scrape_bios_requests.gather_profile_links: one iteration of the loop
GatherRequests(acc, href) ==
    IF ContainsRosterSlash(href) /\ href \notin {<<RosterPath>>, ROSTER_URL}
    THEN LET abs == IF StartsWithSlash(href) THEN <<Origin>> \o href ELSE href IN
           IF abs \notin Range(acc) THEN Append(acc, abs) ELSE acc
    ELSE acc

\* scrape_bios_playwright.gather_profile_links: one iteration of the loop, for
\* an anchor of the page; the selector keeps the anchors whose href holds the
\* roster path and a slash
GatherPlaywright(acc, href) ==
    IF ~ContainsRosterSlash(href) THEN acc
    ELSE IF href = <<>> THEN acc
    ELSE LET abs == IF StartsWithSlash(href) THEN <<Origin>> \o href ELSE href IN
           IF abs \notin Range(acc) THEN Append(acc, abs) ELSE acc

\* the href attributes a roster page can hold: a profile as a relative and as
\* an absolute link, a second profile, the roster itself in both forms and
\* with a slash at its end, a profile as a relative link that does not begin
\* with "/", another page of the site, an empty href
HrefValues ==
    { <<RosterPath, "/", "ann-lee">>,
      <<Origin, RosterPath, "/", "ann-lee">>,
      <<RosterPath, "/", "ann-wu">>,
      ROSTER_URL,
      <<RosterPath>>,
      <<RosterPath, "/">>,
      <<"..", RosterPath, "/", "ann-lee">>,
      <<Origin, "/", "news">>,
      <<>> }

GatherRequestsStep ==
    /\ ldriver = "requests" /\ lpc = "loop" /\ ai < Len(anchors)
    /\ hrefs' = GatherRequests(hrefs, anchors[ai + 1])
    /\ ai' = ai + 1
    /\ UNCHANGED <<ldriver, anchors, lpc, coerceVars, storeVars, scrapeVars>>

GatherPlaywrightStep ==
    /\ ldriver = "playwright" /\ lpc = "loop" /\ ai < Len(anchors)
    /\ hrefs' = GatherPlaywright(hrefs, anchors[ai + 1])
    /\ ai' = ai + 1
    /\ UNCHANGED <<ldriver, anchors, lpc, coerceVars, storeVars, scrapeVars>>

\* `return hrefs`
GatherReturn ==
    /\ lpc = "loop" /\ ai = Len(anchors)
    /\ lpc' = "returned"
    /\ UNCHANGED <<ldriver, anchors, hrefs, ai, coerceVars, storeVars, scrapeVars>>

InitLinks ==
    /\ ldriver \in {"playwright", "requests"}
    /\ anchors \in SeqsUpTo(HrefValues, MaxAnchors)
    /\ hrefs = <<>> /\ ai = 0 /\ lpc = "loop"
    /\ CoerceOff /\ StoreOff /\ ScrapeOff

NextLinks == GatherRequestsStep \/ GatherPlaywrightStep \/ GatherReturn

SpecLinks == InitLinks /\ [][NextLinks]_vars

\* ------------------------------------------------ link discovery: properties
\* an absolute URL begins with a scheme and a host
IsAbsolute(url) == url # <<>> /\ url[1] = Origin

\* the anchor is a link to a profile page
IsProfileHref(href) == ContainsRosterSlash(href)

\* the URL an anchor stands for in the result: a relative href that starts
\* with "/" stands for the URL the origin and the href make
UrlOf(href) == IF StartsWithSlash(href) THEN <<Origin>> \o href ELSE href

\* the first anchor that stands for the URL
FirstAnchor(url) ==
    CHOOSE k \in 1..Len(anchors) :
        /\ IsProfileHref(anchors[k]) /\ UrlOf(anchors[k]) = url
        /\ \A j \in 1..(k - 1) : ~(IsProfileHref(anchors[j]) /\ UrlOf(anchors[j]) = url)

\* what both the claim and its amended form say of the returned list
LinksDistinctOrdered ==
    /\ NoDup(hrefs)
    /\ Range(hrefs) = {UrlOf(anchors[k]) : k \in {j \in 1..Len(anchors) : IsProfileHref(anchors[j])}}
    /\ \A i, j \in 1..Len(hrefs) : i < j => FirstAnchor(hrefs[i]) < FirstAnchor(hrefs[j])
    /\ ROSTER_URL \notin Range(hrefs)

\* C9 (as claimed): the returned list holds absolute URLs only, each profile
\* URL of the page once, in order of first occurrence, the relative and the
\* absolute form of a URL as one entry, and not the roster URL.
C9_LinksAbsoluteDistinct ==
    lpc = "returned" =>
        /\ LinksDistinctOrdered
        /\ \A k \in 1..Len(hrefs) : IsAbsolute(hrefs[k])

\* C9 (amended): as claimed, but an entry is absolute only when its href was
\* absolute or began with "/"; any other relative href is returned as it is.
C9_LinksDistinctAbsoluteIfSlash ==
    lpc = "returned" =>
        /\ LinksDistinctOrdered
        /\ \A k \in 1..Len(hrefs) :
              \/ IsAbsolute(hrefs[k])
              \/ /\ hrefs[k] \in Range(anchors)
                 /\ ~StartsWithSlash(hrefs[k])

C9_Witness ==
    /\ lpc = "returned" /\ ldriver = "requests"
    /\ anchors = << <<RosterPath, "/", "ann-wu">>,
                    <<RosterPath, "/", "ann-lee">>,
                    <<Origin, RosterPath, "/", "ann-lee">> >>
    /\ hrefs = << <<Origin, RosterPath, "/", "ann-wu">>,
                  <<Origin, RosterPath, "/", "ann-lee">> >>

\* ------------------------------------------------------------ scraper drivers
\* The links are numbered in discovery order; a row is named by the page it
\* was extracted from.
ProfileRow(url) == [from |-> "profile", id |-> url]

BlockRow(k) == [from |-> "block", id |-> k]

\* a bio.csv left by an earlier run
OldFile == [exists |-> TRUE, rows |-> <<[from |-> "old", id |-> 0]>>]

\* OUT_CSV.open("w"), writerow(HEADERS), writerows(rows)
Written(rs) == [exists |-> TRUE, rows |-> rs]

LinkLists == {[k \in 1..n |-> k] : n \in 0..MaxLinks}

\* for each inline block of the roster page, whether extracting it raises
BlockLists == SeqsUpTo({"ok", "raises"}, MaxBlocks)

\* The mutant of PlaywrightRosterNext: the wait for the marker is dropped.
PlaywrightNoMarkerWait(cond) == IF cond = "unreachable" THEN "aborted" ELSE "loop"

\* scrape_bios_playwright.main: page.goto(ROSTER_URL) and
\* page.wait_for_selector(".sidearm-roster-player-name") raise out of main
PlaywrightRosterNext(cond) == IF cond = "ok" THEN "loop" ELSE "aborted"

\* scrape_bios_requests.main: get_soup(ROSTER_URL) raises out of main when the
\* request fails; the page itself is not inspected
RequestsRosterNext(cond) == IF cond = "unreachable" THEN "aborted" ELSE "loop"

\* The mutant of RowsAfterVisit: a failed profile leaves an empty row.
RowsAfterVisitKeepsFailed(rs, url, result) ==
    IF result = "ok" THEN Append(rs, ProfileRow(url)) ELSE Append(rs, ProfileRow(0))

\* the try/except of the loop over profile_links: the row is appended when
\* load, wait and extraction all succeed; otherwise the failure is printed
RowsAfterVisit(rs, url, result) ==
    IF result = "ok" THEN Append(rs, ProfileRow(url)) ELSE rs

RECURSIVE FallbackRows(_, _)
FallbackRows(bl, n) ==
    IF n = 0 THEN <<>>
    ELSE IF bl[n] = "ok" THEN Append(FallbackRows(bl, n - 1), BlockRow(n))
    ELSE FallbackRows(bl, n - 1)

\* scrape_bios_requests.main, `if not rows:`: the roster page's inline player
\* blocks are extracted instead
RowsToWrite(rs, bl) == IF rs = <<>> THEN FallbackRows(bl, Len(bl)) ELSE rs

PlaywrightOpenRoster ==
    /\ driver = "playwright" /\ spc = "start"
    /\ \E cond \in {"ok", "unreachable", "no_marker"} :
          /\ roster' = cond
          /\ spc' = PlaywrightRosterNext(cond)
          /\ IF PlaywrightRosterNext(cond) = "loop"
             THEN links' \in LinkLists
             ELSE links' = links
    /\ UNCHANGED <<driver, blocks, idx, rows, failed, csvFile, csvBefore,
                   coerceVars, storeVars, linkVars>>

RequestsFetchRoster ==
    /\ driver = "requests" /\ spc = "start"
    /\ \E cond \in {"ok", "unreachable", "no_marker"} :
          /\ roster' = cond
          /\ spc' = RequestsRosterNext(cond)
          /\ IF RequestsRosterNext(cond) = "loop"
             THEN links' \in LinkLists /\ blocks' \in BlockLists
             ELSE links' = links /\ blocks' = blocks
    /\ UNCHANGED <<driver, idx, rows, failed, csvFile, csvBefore,
                   coerceVars, storeVars, linkVars>>

\* scrape_bios_playwright.main: one iteration of the loop over the links;
\* page.goto, page.wait_for_selector and extract_from_profile can raise
PlaywrightVisit ==
    /\ driver = "playwright" /\ spc = "loop" /\ idx < Len(links)
    /\ \E result \in {"ok", "load_raises", "marker_timeout", "extract_raises"} :
          /\ rows' = RowsAfterVisit(rows, links[idx + 1], result)
          /\ failed' = IF result = "ok" THEN failed ELSE failed \cup {links[idx + 1]}
    /\ idx' = idx + 1
    /\ UNCHANGED <<driver, roster, links, blocks, csvFile, csvBefore, spc,
                   coerceVars, storeVars, linkVars>>

\* scrape_bios_requests.main: one iteration of the loop over the links;
\* get_soup and extract_from_profile can raise
RequestsVisit ==
    /\ driver = "requests" /\ spc = "loop" /\ idx < Len(links)
    /\ \E result \in {"ok", "load_raises", "extract_raises"} :
          /\ rows' = RowsAfterVisit(rows, links[idx + 1], result)
          /\ failed' = IF result = "ok" THEN failed ELSE failed \cup {links[idx + 1]}
    /\ idx' = idx + 1
    /\ UNCHANGED <<driver, roster, links, blocks, csvFile, csvBefore, spc,
                   coerceVars, storeVars, linkVars>>

\* scrape_bios_playwright.main after the loop: browser.close(), write the CSV
PlaywrightWrite ==
    /\ driver = "playwright" /\ spc = "loop" /\ idx = Len(links)
    /\ csvFile' = Written(rows)
    /\ spc' = "written"
    /\ UNCHANGED <<driver, roster, links, blocks, idx, rows, failed, csvBefore,
                   coerceVars, storeVars, linkVars>>

\* scrape_bios_requests.main after the loop: the fallback, write the CSV
RequestsWrite ==
    /\ driver = "requests" /\ spc = "loop" /\ idx = Len(links)
    /\ rows' = RowsToWrite(rows, blocks)
    /\ csvFile' = Written(rows')
    /\ spc' = "written"
    /\ UNCHANGED <<driver, roster, links, blocks, idx, failed, csvBefore,
                   coerceVars, storeVars, linkVars>>

InitScrape ==
    /\ driver \in {"playwright", "requests"}
    /\ csvFile \in {NoFile, OldFile}
    /\ csvBefore = csvFile
    /\ roster = "unknown" /\ links = <<>> /\ blocks = <<>>
    /\ idx = 0 /\ rows = <<>> /\ failed = {} /\ spc = "start"
    /\ CoerceOff /\ StoreOff /\ LinksOff

NextScrape ==
    \/ PlaywrightOpenRoster \/ RequestsFetchRoster
    \/ PlaywrightVisit \/ RequestsVisit
    \/ PlaywrightWrite \/ RequestsWrite

SpecScrape == InitScrape /\ [][NextScrape]_vars

\* ------------------------------------------------ scraper drivers: properties
RECURSIVE RowsOfNotFailed(_)
RowsOfNotFailed(n) ==
    IF n = 0 THEN <<>>
    ELSE IF links[n] \in failed THEN RowsOfNotFailed(n - 1)
    ELSE Append(RowsOfNotFailed(n - 1), ProfileRow(links[n]))

\* one row for every discovered profile that did not fail, in discovery order
ExpectedRows == RowsOfNotFailed(Len(links))

RECURSIVE RowsOfBlocks(_)
RowsOfBlocks(n) ==
    IF n = 0 THEN <<>>
    ELSE IF blocks[n] = "raises" THEN RowsOfBlocks(n - 1)
    ELSE Append(RowsOfBlocks(n - 1), BlockRow(n))

\* once the links are discovered the run does not abort
NoAbortAfterDiscovery == spc = "aborted" => links = <<>> /\ idx = 0 /\ failed = {}

\* C1 (as claimed): whatever profiles fail, the run does not abort and the
\* CSV written holds exactly the rows of the profiles that did not fail, in
\* discovery order.
C1_RowsAreNotFailedProfiles ==
    /\ NoAbortAfterDiscovery
    /\ spc = "written" => csvFile = Written(ExpectedRows)

\* C1 (amended): as claimed, except that the requests driver, when it has
\* collected no profile row (no link, or every profile failed), writes one
\* row for each inline player block of the roster page whose extraction did
\* not fail.
C1_RowsAreNotFailedOrFallback ==
    /\ NoAbortAfterDiscovery
    /\ spc = "written" =>
          csvFile = Written(IF driver = "requests" /\ ExpectedRows = <<>>
                            THEN RowsOfBlocks(Len(blocks)) ELSE ExpectedRows)

\* three links, the second fails, two rows
C1_Witness ==
    /\ spc = "written" /\ driver = "requests"
    /\ Len(links) = 3 /\ failed = {2}
    /\ csvFile.rows = <<ProfileRow(1), ProfileRow(3)>>

RosterBad == roster \in {"unreachable", "no_marker"}

\* C3 (as claimed): in both drivers a run whose roster page cannot be loaded
\* or lacks the marker ends aborted, with bio.csv as it was.
C3_BadRosterAbortsBoth ==
    (RosterBad /\ spc \in {"aborted", "written"}) =>
        spc = "aborted" /\ csvFile = csvBefore

\* C3 (amended): a roster page that cannot be loaded aborts the run in both
\* drivers, and so does a missing marker in the Playwright driver; an aborted
\* run leaves bio.csv as it was. The requests driver does not look for the
\* marker: it goes on and, at the end, overwrites bio.csv.
C3_BadRosterAborts ==
    /\ roster = "unreachable" => spc = "aborted"
    /\ (driver = "playwright" /\ roster = "no_marker") => spc = "aborted"
    /\ spc = "aborted" => RosterBad /\ csvFile = csvBefore
    /\ (driver = "requests" /\ roster = "no_marker") =>
          /\ spc \in {"loop", "written"}
          /\ spc = "written" => csvFile = Written(rows)

C3_Witness ==
    /\ driver = "playwright" /\ roster = "no_marker" /\ spc = "aborted"
    /\ csvBefore = OldFile /\ csvFile = OldFile
====
